---- MODULE Spec2Model ----
(***************************************************************************)
(* The Lambda Runtime API client of lambda-runtime-client/src/client.rs:   *)
(* the poll exchange (next_event), the header codec (get_event_context),   *)
(* the two reporting exchanges (event_response, event_error) and the       *)
(* init-failure exchange (fail_init).                                      *)
(*                                                                         *)
(* Text is a sequence of pieces (TLA+ strings); a header value is a record *)
(* [visible, text]: visible says whether every byte is visible ASCII, the  *)
(* condition HeaderValue::to_str tests.  The text of a JSON header is the  *)
(* JSON value it spells, or JBad when it spells none.                      *)
(***************************************************************************)
EXTENDS Integers, Sequences, FiniteSets, TLC

\* ------------------------------------------------------------------ bounds
\* Longest deadline header text, in characters.
MaxDeadlineLen == 2
\* Longest event body, in bytes.
MaxBodyLen == 2

\* --------------------------------------------------------------- constants
RUNTIME_API_VERSION == "2018-06-01"
API_CONTENT_TYPE == "application/json"
API_ERROR_CONTENT_TYPE == "application/vnd.aws.lambda.error+json"
RUNTIME_ERROR_HEADER == "Lambda-Runtime-Function-Error-Type"

\* The variants of enum LambdaHeaders, in declaration order.
LambdaHeaders ==
  <<"RequestId", "FunctionArn", "TraceId", "Deadline", "ClientContext", "CognitoIdentity">>

RequiredHeaders == {"RequestId", "FunctionArn", "TraceId", "Deadline"}

OptionalHeaders == {"ClientContext", "CognitoIdentity"}

\* LambdaHeaders::as_str.
as_str(h) ==
  CASE h = "RequestId" -> "Lambda-Runtime-Aws-Request-Id"
    [] h = "FunctionArn" -> "Lambda-Runtime-Invoked-Function-Arn"
    [] h = "TraceId" -> "Lambda-Runtime-Trace-Id"
    [] h = "Deadline" -> "Lambda-Runtime-Deadline-Ms"
    [] h = "ClientContext" -> "Lambda-Runtime-Client-Context"
    [] h = "CognitoIdentity" -> "Lambda-Runtime-Cognito-Identity"

HeaderNames == {as_str(LambdaHeaders[i]) : i \in 1..Len(LambdaHeaders)}

\* ------------------------------------------------------- results and errors
Ok(v) == [ok |-> TRUE, v |-> v]

Err(e) == [ok |-> FALSE, e |-> e]

\* ApiError::new(description): the message, not flagged unrecoverable.
ApiErrorNew(msg) == [msg |-> msg, unrecoverable |-> FALSE]

\* ApiError::unrecoverable(): the same error with the flag set.
unrecoverable(e) == [e EXCEPT !.unrecoverable = TRUE]

\* ApiError::from(cause), the conversion `?` and map_err apply to a library
\* error: its description, not flagged unrecoverable.
ApiErrorFrom(cause) == [msg |-> <<cause>>, unrecoverable |-> FALSE]

\* ------------------------------------------------------------ header values
Absent == [present |-> FALSE]

Str(s) == [present |-> TRUE, visible |-> TRUE, text |-> s]

\* A value holding a byte outside visible ASCII.
Opaque == [present |-> TRUE, visible |-> FALSE, text |-> <<>>]

\* HeaderMap::get: the value stored under the name, if any.
get(headers, name) ==
  IF name \in DOMAIN headers THEN headers[name] ELSE Absent

\* HeaderValue::to_str: the text, or ToStrError when a byte is not visible ASCII.
to_str(value) ==
  IF value.visible THEN Ok(value.text) ELSE Err(ApiErrorFrom("ToStrError"))

Digits == {"0", "1", "2", "3", "4", "5", "6", "7", "8", "9"}

DigitValue(c) ==
  CASE c = "0" -> 0 [] c = "1" -> 1 [] c = "2" -> 2 [] c = "3" -> 3 [] c = "4" -> 4
    [] c = "5" -> 5 [] c = "6" -> 6 [] c = "7" -> 7 [] c = "8" -> 8 [] c = "9" -> 9

RECURSIVE FoldDigits(_, _)
\* The digit loop of i64::from_str: result = result * 10 + digit, left to right.
FoldDigits(s, acc) ==
  IF s = <<>> THEN acc ELSE FoldDigits(Tail(s), acc * 10 + DigitValue(Head(s)))

\* str::parse::<i64>: an optional sign, then one or more digits; anything else
\* is a ParseIntError.  (Texts of at most MaxDeadlineLen characters are far
\* below the i64 range, so the overflow arm is not reachable here.)
parse(s) ==
  LET signed == s /= <<>> /\ Head(s) \in {"+", "-"}
      digits == IF signed THEN Tail(s) ELSE s
  IN IF digits = <<>> \/ \E i \in 1..Len(digits) : digits[i] \notin Digits
       THEN Err(ApiErrorFrom("ParseIntError"))
       ELSE IF signed /\ Head(s) = "-"
              THEN Ok(0 - FoldDigits(digits, 0))
              ELSE Ok(FoldDigits(digits, 0))

\* ---------------------------------------------------------------- JSON text
\* A JSON value: a string, or an object (a function from its keys to values).
\* JBad stands for text that is not a JSON document.
JStr(s) == [t |-> "str", v |-> s]

JObj(f) == [t |-> "obj", v |-> f]

JBad == [t |-> "bad", v |-> <<>>]

None == [some |-> FALSE]

Some(x) == [some |-> TRUE, v |-> x]

\* A field a derived Deserialize reads as a String: the key is there and holds a string.
HasStr(j, key) == j.t = "obj" /\ key \in DOMAIN j.v /\ j.v[key].t = "str"

\* A field read as HashMap<String, String>: an object whose values are strings.
HasStrMap(j, key) ==
  /\ j.t = "obj"
  /\ key \in DOMAIN j.v
  /\ j.v[key].t = "obj"
  /\ \A k \in DOMAIN j.v[key].v : j.v[key].v[k].t = "str"

StrMap(j) == [k \in DOMAIN j.v |-> j.v[k].v]

ClientApplicationKeys ==
  {"installationId", "appTitle", "appVersionName", "appVersionCode", "appPackageName"}

\* Deserialize for ClientApplication: five required strings under their renamed keys.
ClientApplication(j) ==
  IF \A key \in ClientApplicationKeys : HasStr(j, key)
    THEN Ok([installation_id |-> j.v["installationId"].v,
             app_title |-> j.v["appTitle"].v,
             app_version_name |-> j.v["appVersionName"].v,
             app_version_code |-> j.v["appVersionCode"].v,
             app_package_name |-> j.v["appPackageName"].v])
    ELSE Err(ApiErrorFrom("serde_json::Error"))

\* serde_json::from_str::<ClientContext>: client, custom and environment are required.
ClientContext(j) ==
  IF /\ j.t = "obj"
     /\ "client" \in DOMAIN j.v
     /\ ClientApplication(j.v["client"]).ok
     /\ HasStrMap(j, "custom")
     /\ HasStrMap(j, "environment")
    THEN Ok([client |-> ClientApplication(j.v["client"]).v,
             custom |-> StrMap(j.v["custom"]),
             environment |-> StrMap(j.v["environment"])])
    ELSE Err(ApiErrorFrom("serde_json::Error"))

\* serde_json::from_str::<CognitoIdentity>: two required strings.
CognitoIdentity(j) ==
  IF HasStr(j, "identity_id") /\ HasStr(j, "identity_pool_id")
    THEN Ok([identity_id |-> j.v["identity_id"].v,
             identity_pool_id |-> j.v["identity_pool_id"].v])
    ELSE Err(ApiErrorFrom("serde_json::Error"))

\* ------------------------------------------------------------- header codec
MissingHeader(h) == ApiErrorNew(<<"Missing ", as_str(h), " header">>)

\* The match block with the message of the first block pasted into the others.
required_header_pasted(headers, h) ==
  LET value == get(headers, as_str(h))
  IN IF value.present THEN to_str(value) ELSE Err(MissingHeader("RequestId"))

\* The match block that reads a required string header (request id, function
\* ARN, trace id): the owned text, or the early return of the error.
required_header(headers, h) ==
  LET value == get(headers, as_str(h))
  IN IF value.present THEN to_str(value) ELSE Err(MissingHeader(h))

\* The match block that reads the deadline: value.to_str()?.parse()?.
deadline_header(headers) ==
  LET value == get(headers, as_str("Deadline"))
  IN IF value.present
       THEN IF to_str(value).ok THEN parse(to_str(value).v) ELSE to_str(value)
       ELSE Err(MissingHeader("Deadline"))

\* The client-context block with a JSON error swallowed: the field stays empty.
client_context_header_lenient(headers) ==
  LET ctx_json == get(headers, as_str("ClientContext"))
  IN IF ~ctx_json.present THEN Ok(None)
     ELSE IF ~to_str(ctx_json).ok THEN to_str(ctx_json)
     ELSE IF ~ClientContext(to_str(ctx_json).v).ok THEN Ok(None)
     ELSE Ok(Some(ClientContext(to_str(ctx_json).v).v))

\* The `if let Some(ctx_json)` block: the new value of ctx.client_context.
client_context_header(headers) ==
  LET ctx_json == get(headers, as_str("ClientContext"))
  IN IF ~ctx_json.present THEN Ok(None)
     ELSE IF ~to_str(ctx_json).ok THEN to_str(ctx_json)
     ELSE IF ~ClientContext(to_str(ctx_json).v).ok THEN ClientContext(to_str(ctx_json).v)
     ELSE Ok(Some(ClientContext(to_str(ctx_json).v).v))

\* The identity block that parses the document and never stores it.
identity_header_dropped(headers) ==
  LET cognito_json == get(headers, as_str("CognitoIdentity"))
  IN IF ~cognito_json.present THEN Ok(None)
     ELSE IF ~to_str(cognito_json).ok THEN to_str(cognito_json)
     ELSE IF ~CognitoIdentity(to_str(cognito_json).v).ok
            THEN CognitoIdentity(to_str(cognito_json).v)
     ELSE Ok(None)

\* The `if let Some(cognito_json)` block: the new value of ctx.identity.
identity_header(headers) ==
  LET cognito_json == get(headers, as_str("CognitoIdentity"))
  IN IF ~cognito_json.present THEN Ok(None)
     ELSE IF ~to_str(cognito_json).ok THEN to_str(cognito_json)
     ELSE IF ~CognitoIdentity(to_str(cognito_json).v).ok
            THEN CognitoIdentity(to_str(cognito_json).v)
     ELSE Ok(Some(CognitoIdentity(to_str(cognito_json).v).v))

\* RuntimeClient::get_event_context: the blocks in source order, the first
\* error returned at once.
get_event_context(headers) ==
  LET aws_request_id == required_header(headers, "RequestId")
      invoked_function_arn == required_header(headers, "FunctionArn")
      xray_trace_id == required_header(headers, "TraceId")
      deadline == deadline_header(headers)
      client_context == client_context_header(headers)
      identity == identity_header(headers)
  IN IF ~aws_request_id.ok THEN aws_request_id
     ELSE IF ~invoked_function_arn.ok THEN invoked_function_arn
     ELSE IF ~xray_trace_id.ok THEN xray_trace_id
     ELSE IF ~deadline.ok THEN deadline
     ELSE IF ~client_context.ok THEN client_context
     ELSE IF ~identity.ok THEN identity
     ELSE Ok([aws_request_id |-> aws_request_id.v,
              invoked_function_arn |-> invoked_function_arn.v,
              xray_trace_id |-> xray_trace_id.v,
              deadline |-> deadline.v,
              client_context |-> client_context.v,
              identity |-> identity.v])

\* ------------------------------------------------------------ status codes
\* StatusCode::is_client_error, is_server_error, is_success.
is_client_error(status) == 400 <= status /\ status <= 499

is_server_error(status) == 500 <= status /\ status <= 599

is_success(status) == 200 <= status /\ status <= 299

canonical_reason(status) ==
  CASE status = 200 -> "OK"
    [] status = 202 -> "Accepted"
    [] status = 301 -> "Moved Permanently"
    [] status = 400 -> "Bad Request"
    [] status = 404 -> "Not Found"
    [] status = 413 -> "Payload Too Large"
    [] status = 500 -> "Internal Server Error"
    [] status = 503 -> "Service Unavailable"
    [] OTHER -> "<unknown status code>"

\* Display for StatusCode: the number, a space, the canonical reason.
StatusDisplay(status) == <<ToString(status), " ", canonical_reason(status)>>

\* --------------------------------------------------------------- requests
\* Uri parsing (the .parse() of each call): a text holding a space is no URI.
UriParses(uri) == \A i \in 1..Len(uri) : uri[i] /= " "

next_event_uri(ep) ==
  <<"http://">> \o ep \o <<"/", RUNTIME_API_VERSION, "/runtime/invocation/next">>

event_response_uri(ep, request_id) ==
  <<"http://">> \o ep \o <<"/", RUNTIME_API_VERSION, "/runtime/invocation/">>
    \o request_id \o <<"/response">>

event_error_uri(ep, request_id) ==
  <<"http://">> \o ep \o <<"/", RUNTIME_API_VERSION, "/runtime/invocation/">>
    \o request_id \o <<"/error">>

fail_init_uri(ep) ==
  <<"http://">> \o ep \o <<"/", RUNTIME_API_VERSION, "/runtime/init/error">>

\* http_client.get(uri).
get_request(uri) ==
  [method |-> "GET", uri |-> uri, headers |-> <<>>, body |-> <<>>]

get_runtime_post_request(uri, body) ==
  [method |-> "POST", uri |-> uri,
   headers |-> <<<<"content-type", API_CONTENT_TYPE>>>>,
   body |-> body]

\* e is the ErrorResponse of e.to_response(); the body is its JSON text.
get_runtime_error_request(uri, e) ==
  [method |-> "POST", uri |-> uri,
   headers |-> <<<<"content-type", API_ERROR_CONTENT_TYPE>>,
                 <<RUNTIME_ERROR_HEADER, "RuntimeError">>>>,
   body |-> <<"{\"errorMessage\":", e.error_message, ",\"errorType\":", e.error_type, "}">>]

\* ------------------------------------------------------ the calls' closures
PollError(status) ==
  ApiErrorNew(<<"Error ">> \o StatusDisplay(status) \o <<" when polling for events">>)

ServerError == ApiErrorNew(<<"Server error when polling for new events">>)

\* The closure without the call of .unrecoverable() on the server error.
next_event_check_unflagged(status, headers) ==
  IF is_client_error(status) THEN Err(PollError(status))
  ELSE IF is_server_error(status) THEN Err(ServerError)
  ELSE get_event_context(headers)

\* The closure with the client-error test dropped: a 4xx falls through.
next_event_check_no_4xx(status, headers) ==
  IF is_server_error(status) THEN Err(unrecoverable(ServerError))
  ELSE get_event_context(headers)

\* next_event, the closure on the response head: a 4xx is an error, a 5xx an
\* unrecoverable error, anything else is handed to get_event_context.
next_event_check(status, headers) ==
  IF is_client_error(status) THEN Err(PollError(status))
  ELSE IF is_server_error(status) THEN Err(unrecoverable(ServerError))
  ELSE get_event_context(headers)

RECURSIVE concat2(_)
\* Stream::concat2: the chunks of the body, appended in order of arrival.
concat2(chunks) ==
  IF chunks = <<>> THEN <<>> ELSE Head(chunks) \o concat2(Tail(chunks))

\* The body taken from the first chunk alone.
next_event_buffer_first_chunk(chunks) ==
  IF chunks = <<>> THEN <<>> ELSE Head(chunks)

\* next_event, the last closure: buf = body.into_bytes().to_vec() of the
\* concatenated body.
next_event_buffer(chunks) == concat2(chunks)

ResponseError(status) ==
  ApiErrorNew(<<"Error ">> \o StatusDisplay(status) \o <<" while sending response">>)

\* The closure with the status classified as the poll classifies it.
event_response_then_as_poll(result) ==
  IF result.ok
    THEN IF is_client_error(result.v.status) THEN Err(ResponseError(result.v.status))
         ELSE IF is_server_error(result.v.status)
                THEN Err(unrecoverable(ResponseError(result.v.status)))
         ELSE Ok(<<>>)
    ELSE Err(result.e)

\* event_response, the closure of .then: result is Ok(resp) or the ApiError
\* of the URI or of the transport.
event_response_then(result) ==
  IF result.ok
    THEN IF ~is_success(result.v.status)
           THEN Err(ResponseError(result.v.status))
           ELSE Ok(<<>>)
    ELSE Err(result.e)

\* The match with a server error flagged unrecoverable.
event_error_match_fatal_5xx(result) ==
  IF result.ok
    THEN IF ~is_success(result.v.status)
           THEN IF is_server_error(result.v.status)
                  THEN Err(unrecoverable(ResponseError(result.v.status)))
                  ELSE Err(ResponseError(result.v.status))
           ELSE Ok(<<>>)
    ELSE Err(ApiErrorFrom(result.e))

\* event_error, the match on http_client.request(req).wait(): result is
\* Ok(resp) or the transport's error.
event_error_match(result) ==
  IF result.ok
    THEN IF ~is_success(result.v.status)
           THEN Err(ResponseError(result.v.status))
           ELSE Ok(<<>>)
    ELSE Err(ApiErrorFrom(result.e))

\* The chain with the transport error logged and not raised.
fail_init_wait_logged(result) == "returned"

\* The chain with an expect on the status added.
fail_init_wait_checked(result) ==
  IF result.ok /\ is_success(result.v.status) THEN "returned" ELSE "panicked"

\* fail_init, the chain on http_client.request(req).wait(): map_err panics on
\* the transport's error, map logs any response, expect unwraps.
fail_init_wait(result) ==
  IF result.ok THEN "returned" ELSE "panicked"

\* ------------------------------------------------------------------ inputs
RECURSIVE SeqsUpTo(_, _)
\* The sequences over alphabet of length at most n.
SeqsUpTo(alphabet, n) ==
  IF n = 0 THEN {<<>>}
  ELSE LET shorter == SeqsUpTo(alphabet, n - 1)
       IN shorter \cup {Append(q, c) : q \in shorter, c \in alphabet}

DeadlineChars == {"0", "1", "-", "x"}

RequestIdValues == {Absent, Opaque, Str(<<"8476a536">>)}

FunctionArnValues == {Absent, Opaque, Str(<<"arn:aws:lambda:fn">>)}

TraceIdValues == {Absent, Opaque, Str(<<"Root=1-5bef4de7">>)}

DeadlineValues ==
  {Absent, Opaque} \cup {Str(q) : q \in SeqsUpTo(DeadlineChars, MaxDeadlineLen)}

ClientDoc ==
  JObj([client |-> JObj([installationId |-> JStr("inst"),
                         appTitle |-> JStr("title"),
                         appVersionName |-> JStr("1.0"),
                         appVersionCode |-> JStr("10"),
                         appPackageName |-> JStr("pkg")]),
        custom |-> JObj([k \in {"colour"} |-> JStr("red")]),
        environment |-> JObj([k \in {} |-> JStr("")])])

\* The same document without its custom member.
ClientDocNoCustom ==
  JObj([client |-> ClientDoc.v["client"], environment |-> ClientDoc.v["environment"]])

ClientContextValues == {Absent, Opaque, Str(JBad), Str(ClientDoc), Str(ClientDocNoCustom)}

CognitoDoc == JObj([identity_id |-> JStr("id-7"), identity_pool_id |-> JStr("pool-3")])

\* The same document without its identity_pool_id member.
CognitoDocNoPool == JObj([identity_id |-> JStr("id-7")])

CognitoIdentityValues == {Absent, Opaque, Str(JBad), Str(CognitoDoc), Str(CognitoDocNoPool)}

\* The header map that holds the present values of an assignment of the six names.
HeaderMapOf(r, a, t, d, c, i) ==
  LET all == (as_str("RequestId") :> r) @@ (as_str("FunctionArn") :> a)
               @@ (as_str("TraceId") :> t) @@ (as_str("Deadline") :> d)
               @@ (as_str("ClientContext") :> c) @@ (as_str("CognitoIdentity") :> i)
  IN [n \in {m \in HeaderNames : all[m].present} |-> all[n]]

HeaderMaps ==
  {HeaderMapOf(r, a, t, d, c, i) :
     r \in RequestIdValues, a \in FunctionArnValues, t \in TraceIdValues,
     d \in DeadlineValues, c \in ClientContextValues, i \in CognitoIdentityValues}

\* The header maps a poll response carries in the client's run.
PollHeaderMaps ==
  {HeaderMapOf(r, Str(<<"arn:aws:lambda:fn">>), t, d, c, i) :
     r \in {Absent, Str(<<"8476a536">>)},
     t \in {Opaque, Str(<<"Root=1-5bef4de7">>)},
     d \in {Str(<<"1", "0">>), Str(<<"x">>)},
     c \in {Absent, Str(JBad), Str(ClientDoc)},
     i \in {Absent, Str(CognitoDoc), Str(CognitoDocNoPool)}}

Statuses == {200, 202, 301, 400, 404, 413, 500, 503}

ByteValues == {0, 255}

Bodies == SeqsUpTo(ByteValues, MaxBodyLen)

\* The ways a body arrives: in no chunk (when empty), in one, or cut in two.
Splits(body) ==
  {<<body>>}
    \cup (IF body = <<>> THEN {<<>>} ELSE {})
    \cup {<<SubSeq(body, 1, k), SubSeq(body, k + 1, Len(body))>> : k \in 1..(Len(body) - 1)}

Endpoints == {<<"127.0.0.1", ":", "9001">>, <<"local", " ", "host">>}

RequestIds == {<<"8476a536">>, <<"8476", " ", "a536">>}

Outputs == {<<>>, <<123, 125>>}

ErrorResponses == {[error_message |-> "boom", error_type |-> "HandlerError"]}

\* ------------------------------------------------------------------- state
VARIABLES
  endpoint,   \* RuntimeClient.endpoint
  pc,         \* where the caller is: "idle", inside one call, or "panicked"
  requests,   \* the HTTP requests the current call has sent
  resp,       \* the response head the current call received
  ctx,        \* the context next_event holds while the body is read
  wire,       \* the body the peer sent for the poll, and whether all of it arrived
  result,     \* the outcome of the current call
  codec_in,   \* the header map handed to get_event_context on its own
  codec_out   \* what get_event_context returned for it

vars == <<endpoint, pc, requests, resp, ctx, wire, result, codec_in, codec_out>>

NoResp == [received |-> FALSE]

NoWire == [complete |-> FALSE, bytes |-> <<>>]

NotRun == [run |-> FALSE]

Outcome(call, state, v) == [call |-> call, state |-> state, v |-> v]

Resolved(call, r) ==
  IF r.ok THEN Outcome(call, "ok", r.v) ELSE Outcome(call, "err", r.e)

\* RuntimeClient::new: the endpoint is stored; nothing has been called.
Init ==
  /\ endpoint \in Endpoints
  /\ pc = "idle"
  /\ requests = <<>>
  /\ resp = NoResp
  /\ ctx = None
  /\ wire = NoWire
  /\ result = Outcome("none", "none", <<>>)
  /\ codec_in = <<>>
  /\ codec_out = NotRun

\* What every call resets when it starts.
Fresh == resp' = NoResp /\ ctx' = None /\ wire' = NoWire

\* ------------------------------------------------------------- next_event
\* The caller polls: the URI is built and, when it parses, the GET is sent.
next_event_call ==
  /\ pc = "idle"
  /\ Fresh
  /\ LET uri == next_event_uri(endpoint)
     IN IF UriParses(uri)
          THEN /\ requests' = <<get_request(uri)>>
               /\ pc' = "next_event"
               /\ result' = Outcome("next_event", "pending", <<>>)
          ELSE /\ requests' = <<>>
               /\ pc' = "idle"
               /\ result' = Outcome("next_event", "err", ApiErrorFrom("InvalidUri"))
  /\ UNCHANGED <<endpoint, codec_in, codec_out>>

\* The closure joining the body before the headers are decoded: the body is
\* awaited for every status that is no error status.
next_event_response_body_first(status, headers) ==
  /\ pc = "next_event"
  /\ resp' = [received |-> TRUE, status |-> status, headers |-> headers]
  /\ LET r == next_event_check(status, headers)
     IN IF r.ok \/ ~(is_client_error(status) \/ is_server_error(status))
          THEN /\ pc' = "next_event_body"
               /\ ctx' = Some(IF r.ok THEN r.v ELSE r.e)
               /\ UNCHANGED result
          ELSE pc' = "idle" /\ ctx' = None /\ result' = Resolved("next_event", r)
  /\ UNCHANGED <<endpoint, requests, wire, codec_in, codec_out>>

\* The response head arrives and the closure on it runs.
next_event_response(status, headers) ==
  /\ pc = "next_event"
  /\ resp' = [received |-> TRUE, status |-> status, headers |-> headers]
  /\ LET r == next_event_check(status, headers)
     IN IF r.ok
          THEN pc' = "next_event_body" /\ ctx' = Some(r.v) /\ UNCHANGED result
          ELSE pc' = "idle" /\ ctx' = None /\ result' = Resolved("next_event", r)
  /\ UNCHANGED <<endpoint, requests, wire, codec_in, codec_out>>

\* The transport's error answered by sending the GET once more.
next_event_transport_error_retry ==
  /\ pc = "next_event"
  /\ IF Len(requests) < 2
       THEN requests' = Append(requests, requests[1]) /\ UNCHANGED <<pc, result>>
       ELSE /\ pc' = "idle"
            /\ result' = Outcome("next_event", "err", ApiErrorFrom("hyper::Error"))
            /\ UNCHANGED requests
  /\ UNCHANGED <<endpoint, resp, ctx, wire, codec_in, codec_out>>

\* http_client.get fails: the error is converted and returned.
next_event_transport_error ==
  /\ pc = "next_event"
  /\ pc' = "idle"
  /\ result' = Outcome("next_event", "err", ApiErrorFrom("hyper::Error"))
  /\ UNCHANGED <<endpoint, requests, resp, ctx, wire, codec_in, codec_out>>

\* The body future that takes what has arrived and goes on waiting for more.
next_event_body_keeps_reading(body, chunks) ==
  /\ pc = "next_event_body"
  /\ wire' = [complete |-> FALSE, bytes |-> next_event_buffer(chunks)]
  /\ UNCHANGED <<endpoint, pc, requests, resp, ctx, result, codec_in, codec_out>>

\* The whole body arrives, in chunks, and is paired with the context.
next_event_body(body, chunks) ==
  /\ pc = "next_event_body"
  /\ wire' = [complete |-> TRUE, bytes |-> body]
  /\ pc' = "idle"
  /\ result' = Outcome("next_event", "ok", [buf |-> next_event_buffer(chunks), ctx |-> ctx.v])
  /\ ctx' = None
  /\ UNCHANGED <<endpoint, requests, resp, codec_in, codec_out>>

\* The body stream fails: concat2's error is converted and returned.
next_event_body_error ==
  /\ pc = "next_event_body"
  /\ pc' = "idle"
  /\ result' = Outcome("next_event", "err", ApiErrorFrom("hyper::Error"))
  /\ ctx' = None
  /\ UNCHANGED <<endpoint, requests, resp, wire, codec_in, codec_out>>

\* --------------------------------------------------------- event_response
\* The caller posts a response: an unparsable URI reaches the closure of
\* .then as an error and no request is built; otherwise the POST is sent.
event_response_call(request_id, output) ==
  /\ pc = "idle"
  /\ Fresh
  /\ LET uri == event_response_uri(endpoint, request_id)
     IN IF UriParses(uri)
          THEN /\ requests' = <<get_runtime_post_request(uri, output)>>
               /\ pc' = "event_response"
               /\ result' = Outcome("event_response", "pending", <<>>)
          ELSE /\ requests' = <<>>
               /\ pc' = "idle"
               /\ result' = Resolved("event_response",
                                     event_response_then(Err(ApiErrorFrom("InvalidUri"))))
  /\ UNCHANGED <<endpoint, codec_in, codec_out>>

event_response_response(status) ==
  /\ pc = "event_response"
  /\ resp' = [received |-> TRUE, status |-> status, headers |-> <<>>]
  /\ pc' = "idle"
  /\ result' = Resolved("event_response", event_response_then(Ok(resp')))
  /\ UNCHANGED <<endpoint, requests, ctx, wire, codec_in, codec_out>>

event_response_transport_error ==
  /\ pc = "event_response"
  /\ pc' = "idle"
  /\ result' = Resolved("event_response",
                        event_response_then(Err(ApiErrorFrom("hyper::Error"))))
  /\ UNCHANGED <<endpoint, requests, resp, ctx, wire, codec_in, codec_out>>

\* ------------------------------------------------------------ event_error
\* The request built from the formatted text without parsing it.
event_error_call_unchecked(request_id, e) ==
  /\ pc = "idle"
  /\ Fresh
  /\ requests' = <<get_runtime_error_request(event_error_uri(endpoint, request_id), e)>>
  /\ pc' = "event_error"
  /\ result' = Outcome("event_error", "pending", <<>>)
  /\ UNCHANGED <<endpoint, codec_in, codec_out>>

\* The caller posts an error: .parse()? returns the URI's error at once;
\* otherwise the POST is sent and the caller waits.
event_error_call(request_id, e) ==
  /\ pc = "idle"
  /\ Fresh
  /\ LET uri == event_error_uri(endpoint, request_id)
     IN IF UriParses(uri)
          THEN /\ requests' = <<get_runtime_error_request(uri, e)>>
               /\ pc' = "event_error"
               /\ result' = Outcome("event_error", "pending", <<>>)
          ELSE /\ requests' = <<>>
               /\ pc' = "idle"
               /\ result' = Outcome("event_error", "err", ApiErrorFrom("InvalidUri"))
  /\ UNCHANGED <<endpoint, codec_in, codec_out>>

event_error_response(status) ==
  /\ pc = "event_error"
  /\ resp' = [received |-> TRUE, status |-> status, headers |-> <<>>]
  /\ pc' = "idle"
  /\ result' = Resolved("event_error", event_error_match(Ok(resp')))
  /\ UNCHANGED <<endpoint, requests, ctx, wire, codec_in, codec_out>>

event_error_transport_error ==
  /\ pc = "event_error"
  /\ pc' = "idle"
  /\ result' = Resolved("event_error", event_error_match(Err("hyper::Error")))
  /\ UNCHANGED <<endpoint, requests, resp, ctx, wire, codec_in, codec_out>>

\* -------------------------------------------------------------- fail_init
\* What fail_init leaves: control back with the caller, or a panic.
Finished(how) ==
  /\ pc' = IF how = "panicked" THEN "panicked" ELSE "idle"
  /\ result' = Outcome("fail_init", how, <<>>)

\* The caller reports an init failure: .expect panics on an unparsable URI;
\* otherwise the POST is sent and the caller waits.
fail_init_call(e) ==
  /\ pc = "idle"
  /\ Fresh
  /\ LET uri == fail_init_uri(endpoint)
     IN IF UriParses(uri)
          THEN /\ requests' = <<get_runtime_error_request(uri, e)>>
               /\ pc' = "fail_init"
               /\ result' = Outcome("fail_init", "pending", <<>>)
          ELSE /\ requests' = <<>>
               /\ Finished("panicked")
  /\ UNCHANGED <<endpoint, codec_in, codec_out>>

fail_init_response(status) ==
  /\ pc = "fail_init"
  /\ resp' = [received |-> TRUE, status |-> status, headers |-> <<>>]
  /\ Finished(fail_init_wait(Ok(resp')))
  /\ UNCHANGED <<endpoint, requests, ctx, wire, codec_in, codec_out>>

fail_init_transport_error ==
  /\ pc = "fail_init"
  /\ Finished(fail_init_wait(Err("hyper::Error")))
  /\ UNCHANGED <<endpoint, requests, resp, ctx, wire, codec_in, codec_out>>

\* ---------------------------------------------------------- specifications
Next ==
  \/ next_event_call
  \/ \E status \in Statuses, headers \in PollHeaderMaps : next_event_response(status, headers)
  \/ next_event_transport_error
  \/ \E body \in Bodies : \E chunks \in Splits(body) : next_event_body(body, chunks)
  \/ next_event_body_error
  \/ \E request_id \in RequestIds, output \in Outputs : event_response_call(request_id, output)
  \/ \E status \in Statuses : event_response_response(status)
  \/ event_response_transport_error
  \/ \E request_id \in RequestIds, e \in ErrorResponses : event_error_call(request_id, e)
  \/ \E status \in Statuses : event_error_response(status)
  \/ event_error_transport_error
  \/ \E e \in ErrorResponses : fail_init_call(e)
  \/ \E status \in Statuses : fail_init_response(status)
  \/ fail_init_transport_error

Spec == Init /\ [][Next]_vars

\* What the peer and the transport do to a call that waits for them.
PeerStep ==
  \/ \E status \in Statuses, headers \in PollHeaderMaps : next_event_response(status, headers)
  \/ next_event_transport_error
  \/ \E body \in Bodies : \E chunks \in Splits(body) : next_event_body(body, chunks)
  \/ next_event_body_error
  \/ \E status \in Statuses : event_response_response(status)
  \/ event_response_transport_error
  \/ \E status \in Statuses : event_error_response(status)
  \/ event_error_transport_error
  \/ \E status \in Statuses : fail_init_response(status)
  \/ fail_init_transport_error

\* The client under a peer that, to a waiting call, eventually responds or
\* lets the transport fail.
LiveSpec == Init /\ [][Next]_vars /\ WF_vars(PeerStep)

\* get_event_context on its own: every header map, decoded once.
CodecInit ==
  /\ endpoint = <<"127.0.0.1", ":", "9001">>
  /\ pc = "idle"
  /\ requests = <<>>
  /\ resp = NoResp
  /\ ctx = None
  /\ wire = NoWire
  /\ result = Outcome("none", "none", <<>>)
  /\ codec_in \in HeaderMaps
  /\ codec_out = NotRun

Decode ==
  /\ ~codec_out.run
  /\ codec_out' = [run |-> TRUE, r |-> get_event_context(codec_in)]
  /\ UNCHANGED <<endpoint, pc, requests, resp, ctx, wire, result, codec_in>>

CodecNext == Decode

CodecSpec == CodecInit /\ [][CodecNext]_vars

\* ---------------------------------------------------------- the worker loop
\* The life cycle of the process that owns the client, read off the state:
\* a call in progress is Polling or Reporting; an event returned and not yet
\* reported is Executing; an error flagged unrecoverable keeps the phase of
\* its call until the caller acts on the flag.
Phase ==
  CASE pc \in {"panicked", "terminated"} -> "Terminated"
    [] pc \in {"next_event", "next_event_body"} -> "Polling"
    [] pc \in {"event_response", "event_error", "fail_init"} -> "Reporting"
    [] pc = "idle" /\ result.state = "err" /\ result.v.unrecoverable ->
         IF result.call = "next_event" THEN "Polling" ELSE "Reporting"
    [] pc = "idle" /\ result.state = "ok" /\ result.call = "next_event" -> "Executing"
    [] OTHER -> "Idle"

\* The init failure is reported before any poll, and nothing follows it.
loop_fail_init(e) == result.call = "none" /\ fail_init_call(e)

\* The loop polling whenever the last call has returned, an event held or not.
loop_poll_unguarded == result.call /= "fail_init" /\ next_event_call

\* The loop polls when it is idle.
loop_poll == Phase = "Idle" /\ result.call /= "fail_init" /\ next_event_call

\* The handler succeeded: its output is posted for the event's request id.
loop_respond(output) ==
  /\ Phase = "Executing"
  /\ event_response_call(result.v.ctx.aws_request_id, output)

\* The handler failed: its error is posted for the event's request id.
loop_error(e) ==
  /\ Phase = "Executing"
  /\ event_error_call(result.v.ctx.aws_request_id, e)

\* The caller checks the flag after a call and ends the process when it is set.
loop_terminate ==
  /\ pc = "idle"
  /\ result.state = "err"
  /\ result.v.unrecoverable
  /\ pc' = "terminated"
  /\ UNCHANGED <<endpoint, requests, resp, ctx, wire, result, codec_in, codec_out>>

LoopNext ==
  \/ \E e \in ErrorResponses : loop_fail_init(e)
  \/ loop_poll
  \/ \E status \in Statuses, headers \in PollHeaderMaps : next_event_response(status, headers)
  \/ next_event_transport_error
  \/ \E body \in Bodies : \E chunks \in Splits(body) : next_event_body(body, chunks)
  \/ next_event_body_error
  \/ \E output \in Outputs : loop_respond(output)
  \/ \E status \in Statuses : event_response_response(status)
  \/ event_response_transport_error
  \/ \E e \in ErrorResponses : loop_error(e)
  \/ \E status \in Statuses : event_error_response(status)
  \/ event_error_transport_error
  \/ \E status \in Statuses : fail_init_response(status)
  \/ fail_init_transport_error
  \/ loop_terminate

LoopSpec == Init /\ [][LoopNext]_vars

\* ------------------------------------------------------------------ claims
\* What the claims say of a header map, stated on the map itself.
Has(h, name) == as_str(name) \in DOMAIN h

Val(h, name) == h[as_str(name)]

\* The digits of DeadlineChars are 0 and 1.
Numeral(c) == IF c = "0" THEN 0 ELSE 1

IsDecimal(s) ==
  /\ s /= <<>>
  /\ LET d == IF s[1] \in {"+", "-"} THEN SubSeq(s, 2, Len(s)) ELSE s
     IN d /= <<>> /\ \A k \in 1..Len(d) : d[k] \in {"0", "1"}

RECURSIVE Weighted(_, _)
\* The value of the digits d[k..], each weighted by its place.
Weighted(d, k) ==
  IF k > Len(d) THEN 0 ELSE Numeral(d[k]) * 10 ^ (Len(d) - k) + Weighted(d, k + 1)

DecimalValue(s) ==
  IF s[1] = "-" THEN 0 - Weighted(SubSeq(s, 2, Len(s)), 1)
  ELSE IF s[1] = "+" THEN Weighted(SubSeq(s, 2, Len(s)), 1)
  ELSE Weighted(s, 1)

RequiredValid(h) ==
  /\ \A name \in RequiredHeaders : Has(h, name) /\ Val(h, name).visible
  /\ IsDecimal(Val(h, "Deadline").text)

OptionalValid(h) ==
  /\ Has(h, "ClientContext") =>
       Val(h, "ClientContext").visible /\ Val(h, "ClientContext").text = ClientDoc
  /\ Has(h, "CognitoIdentity") =>
       Val(h, "CognitoIdentity").visible /\ Val(h, "CognitoIdentity").text = CognitoDoc

ExpectedClientContext ==
  [client |-> [installation_id |-> "inst", app_title |-> "title",
               app_version_name |-> "1.0", app_version_code |-> "10",
               app_package_name |-> "pkg"],
   custom |-> [k \in {"colour"} |-> "red"],
   environment |-> [k \in {} |-> ""]]

ExpectedIdentity == [identity_id |-> "id-7", identity_pool_id |-> "pool-3"]

IsMissingHeaderError(e) == e.msg[1] = "Missing "

PollAnswered == result.call = "next_event" /\ resp.received

\* C1: a poll answered with a 5xx status fails with an error flagged
\* unrecoverable, and returns no event.
C1_ServerErrorUnrecoverable ==
  (PollAnswered /\ resp.status \in 500..599) =>
    /\ pc = "idle"
    /\ result.state = "err"
    /\ result.v.unrecoverable

C1_Witness ==
  PollAnswered /\ resp.status = 500 /\ result.state = "err" /\ result.v.unrecoverable

\* C2: a poll answered with a 4xx status returns an error that is not flagged
\* unrecoverable, and returns no event.
C2_ClientErrorRecoverable ==
  (PollAnswered /\ resp.status \in 400..499) =>
    /\ pc = "idle"
    /\ result.state = "err"
    /\ ~result.v.unrecoverable

C2_Witness ==
  PollAnswered /\ resp.status = 404 /\ result.state = "err" /\ ~result.v.unrecoverable

PollFinished == PollAnswered /\ pc = "idle" /\ wire.complete

\* C3 as stated: a poll answered 200 with the four required headers valid
\* returns the context and the body unchanged, whatever else the head holds.
C3_Original ==
  (PollAnswered /\ resp.status = 200 /\ RequiredValid(resp.headers)) =>
    \/ pc = "next_event_body"
    \/ result.state = "ok" /\ result.v.buf = wire.bytes
    \/ result.state = "err" /\ result.v.msg = <<"hyper::Error">>

\* C3, amended: a poll answered 200 whose four required headers are valid and
\* whose optional headers, when present, hold a well-formed document returns,
\* once the body has arrived in full, the decoded context and the body byte
\* for byte, the empty body included; it fails only if the body's transfer fails.
C3_BodyRoundTrip ==
  (/\ PollAnswered
   /\ resp.status = 200
   /\ RequiredValid(resp.headers)
   /\ OptionalValid(resp.headers)
   /\ pc = "idle") =>
    IF wire.complete
      THEN /\ result.state = "ok"
           /\ result.v.buf = wire.bytes
           /\ result.v.ctx.aws_request_id = Val(resp.headers, "RequestId").text
           /\ result.v.ctx.deadline = DecimalValue(Val(resp.headers, "Deadline").text)
      ELSE result.state = "err" /\ result.v.msg = <<"hyper::Error">>

C3_Witness ==
  /\ PollFinished
  /\ resp.status = 200
  /\ result.state = "ok"
  /\ Len(wire.bytes) = 2
  /\ result.v.buf = wire.bytes

Decoded == codec_out.run

\* The required headers that get_event_context reads before this one.
ReadBefore(name) ==
  CASE name = "RequestId" -> {}
    [] name = "FunctionArn" -> {"RequestId"}
    [] name = "TraceId" -> {"RequestId", "FunctionArn"}
    [] name = "Deadline" -> {"RequestId", "FunctionArn", "TraceId"}

NamesMissing(r, name) ==
  ~r.ok /\ r.e.msg = <<"Missing ", as_str(name), " header">>

\* C4 as stated: a map missing one required header fails with the
\* missing-header error naming that header, whatever the other values are.
C4_Original ==
  Decoded =>
    \A name \in RequiredHeaders :
      (\A other \in RequiredHeaders : Has(codec_in, other) <=> other /= name)
        => NamesMissing(codec_out.r, name)

\* C4, amended: get_event_context fails with the missing-header error naming
\* an absent required header whenever every required header read before it
\* (order: request id, function ARN, trace id, deadline) is present with a
\* visible-ASCII value, whatever the later and the optional headers hold; when
\* an earlier one holds a byte outside visible ASCII the error is that
\* header's string-conversion error instead.
C4_MissingHeaderNamed ==
  Decoded =>
    \A name \in RequiredHeaders :
      ~Has(codec_in, name) =>
        /\ (\A before \in ReadBefore(name) :
              Has(codec_in, before) /\ Val(codec_in, before).visible)
             => NamesMissing(codec_out.r, name)
        /\ (\A other \in RequiredHeaders \ {name} : Has(codec_in, other))
             => \/ NamesMissing(codec_out.r, name)
                \/ /\ ~codec_out.r.ok
                   /\ codec_out.r.e.msg = <<"ToStrError">>
                   /\ \E before \in ReadBefore(name) : ~Val(codec_in, before).visible

C4_Witness ==
  /\ Decoded
  /\ ~Has(codec_in, "TraceId")
  /\ \A other \in RequiredHeaders \ {"TraceId"} : Has(codec_in, other)
  /\ Has(codec_in, "ClientContext") /\ Val(codec_in, "ClientContext").text = JBad
  /\ NamesMissing(codec_out.r, "TraceId")

\* C5: a map whose six headers all hold valid values decodes to a context
\* whose request id, function ARN, trace id and deadline are the headers'
\* values and whose client_context and identity hold the decoded documents;
\* with an optional header absent, decoding succeeds and that field is empty.
C5_DecodeWellFormed ==
  (Decoded /\ RequiredValid(codec_in) /\ OptionalValid(codec_in)) =>
    /\ codec_out.r.ok
    /\ codec_out.r.v.aws_request_id = Val(codec_in, "RequestId").text
    /\ codec_out.r.v.invoked_function_arn = Val(codec_in, "FunctionArn").text
    /\ codec_out.r.v.xray_trace_id = Val(codec_in, "TraceId").text
    /\ codec_out.r.v.deadline = DecimalValue(Val(codec_in, "Deadline").text)
    /\ codec_out.r.v.client_context =
         IF Has(codec_in, "ClientContext") THEN Some(ExpectedClientContext) ELSE None
    /\ codec_out.r.v.identity =
         IF Has(codec_in, "CognitoIdentity") THEN Some(ExpectedIdentity) ELSE None

C5_Witness ==
  /\ Decoded
  /\ RequiredValid(codec_in)
  /\ OptionalValid(codec_in)
  /\ Has(codec_in, "ClientContext")
  /\ Has(codec_in, "CognitoIdentity")
  /\ Val(codec_in, "Deadline").text = <<"-", "1">>
  /\ codec_out.r.ok
  /\ codec_out.r.v.identity = Some(ExpectedIdentity)

\* A present header whose text cannot be decoded: a client-context or identity
\* header that is no document of its type, or a deadline that is no number.
Undecodable(h) ==
  \/ /\ Has(h, "ClientContext")
     /\ Val(h, "ClientContext").visible
     /\ Val(h, "ClientContext").text /= ClientDoc
  \/ /\ Has(h, "CognitoIdentity")
     /\ Val(h, "CognitoIdentity").visible
     /\ Val(h, "CognitoIdentity").text /= CognitoDoc
  \/ /\ Has(h, "Deadline")
     /\ Val(h, "Deadline").visible
     /\ ~IsDecimal(Val(h, "Deadline").text)

\* C6: get_event_context returns no partially populated context: a malformed
\* document in a present client-context or identity header, or a non-numeric
\* deadline, makes the decode fail, and with the four required headers present
\* the error is not a missing-header error; a context that is returned holds
\* a value for every optional header that was present.
C6_NoPartialContext ==
  Decoded =>
    /\ Undecodable(codec_in) =>
         /\ ~codec_out.r.ok
         /\ (\A name \in RequiredHeaders : Has(codec_in, name))
              => ~IsMissingHeaderError(codec_out.r.e)
    /\ codec_out.r.ok =>
         /\ codec_out.r.v.client_context.some = Has(codec_in, "ClientContext")
         /\ codec_out.r.v.identity.some = Has(codec_in, "CognitoIdentity")

C6_Witness ==
  /\ Decoded
  /\ RequiredValid(codec_in)
  /\ Has(codec_in, "ClientContext")
  /\ Val(codec_in, "ClientContext").visible
  /\ Val(codec_in, "ClientContext").text = JBad
  /\ ~codec_out.r.ok
  /\ codec_out.r.e.msg = <<"serde_json::Error">>

Mentions(msg, piece) == \E k \in 1..Len(msg) : msg[k] = piece

ResponseAnswered == result.call = "event_response" /\ resp.received

ErrorReturned == result.call = "event_error" /\ pc = "idle"

\* C8: event_error returns an error to the caller for every status outside
\* 2xx and for every failure to obtain a response; the error is never flagged
\* unrecoverable, and the call never panics.
C8_ErrorNeverFatal ==
  result.call = "event_error" =>
    /\ pc \in {"event_error", "idle"}
    /\ result.state \in {"pending", "ok", "err"}
    /\ ErrorReturned =>
         IF resp.received /\ resp.status \in 200..299
           THEN result.state = "ok"
           ELSE result.state = "err" /\ ~result.v.unrecoverable

C8_Witness ==
  /\ ErrorReturned
  /\ resp.received
  /\ resp.status = 400
  /\ result.state = "err"
  /\ ~result.v.unrecoverable

\* The init-error request went out and the exchange ended without a response.
InitTransportFailed ==
  /\ result.call = "fail_init"
  /\ requests /= <<>>
  /\ ~resp.received
  /\ result.state /= "pending"

\* C9: fail_init panics, never returning to the caller, when the report
\* cannot be sent because the transport fails, and returns normally when the
\* report is sent and answered with success.
C9_InitFailure ==
  /\ InitTransportFailed => result.state = "panicked" /\ pc = "panicked"
  /\ (result.call = "fail_init" /\ resp.received /\ resp.status \in 200..299)
       => result.state = "returned" /\ pc = "idle"

C9_Witness == InitTransportFailed /\ pc = "panicked"

\* C10 as stated: a response to the init-error report with a status outside
\* 2xx ends the process.
C10_Original ==
  (result.call = "fail_init" /\ resp.received /\ resp.status \notin 200..299)
    => result.state = "panicked"

\* C10, amended: the report-init-failure call ends the process exactly when
\* no response is obtained (the URI does not parse or the transport fails);
\* every response, whatever its status, 2xx or not, makes it return normally.
C10_InitOutcome ==
  (result.call = "fail_init" /\ result.state /= "pending") =>
    IF resp.received
      THEN result.state = "returned" /\ pc = "idle"
      ELSE result.state = "panicked" /\ pc = "panicked"

C10_Witness ==
  /\ result.call = "fail_init"
  /\ resp.received
  /\ resp.status = 500
  /\ result.state = "returned"

PollFlagged ==
  /\ result.call = "next_event"
  /\ result.state = "err"
  /\ result.v.unrecoverable

C13_ResponseErrorsFlagged ==
  (ResponseAnswered /\ resp.status \notin 200..299) =>
    result.state = "err" /\ result.v.unrecoverable

\* The poll's response head cannot be decoded, said of the headers themselves.
HeadUndecodable == ~(RequiredValid(resp.headers) /\ OptionalValid(resp.headers))

\* C14: in a poll the headers are decoded before any of the body is read:
\* when decoding fails the call fails with the decode error and the body is
\* never read; the body is read only once a context has been decoded.
C14_HeadersBeforeBody ==
  /\ (PollAnswered /\ resp.status \notin 400..599 /\ HeadUndecodable) =>
       /\ pc = "idle"
       /\ result.state = "err"
       /\ result.v.msg /= <<"hyper::Error">>
       /\ wire = NoWire
  /\ (pc = "next_event_body" \/ wire /= NoWire) =>
       /\ PollAnswered
       /\ ~HeadUndecodable
       /\ pc = "next_event_body" => ctx.some /\ wire = NoWire
       /\ wire /= NoWire => result.state = "ok"

C14_Witness ==
  /\ PollAnswered
  /\ resp.status = 200
  /\ HeadUndecodable
  /\ Has(resp.headers, "RequestId")
  /\ result.state = "err"
  /\ wire = NoWire

\* C15: a poll decodes headers and returns an event only for a 2xx status;
\* for every status outside 2xx no event is returned.
C15_EventOnlyOn2xx ==
  (PollAnswered /\ resp.status \notin 200..299) =>
    pc /= "next_event_body" /\ result.state /= "ok"

\* The error a call returns for a response with this status.
StatusErrorOf(call, status) ==
  CASE call = "next_event" -> next_event_check(status, <<>>).e
    [] call = "event_response" -> event_response_then(Ok([status |-> status])).e
    [] call = "event_error" -> event_error_match(Ok([status |-> status])).e

\* The calls for which this status is an error status.
CallsFailingOn(status) ==
  {"event_response", "event_error"}
    \cup (IF status \in 400..599 THEN {"next_event"} ELSE {})

\* C16: every error produced for a non-success status by next_event,
\* event_response or event_error carries the status code and the name of its
\* call, so that the three calls' errors differ.
C16_StatusAndCallInMessage ==
  (/\ result.call \in {"next_event", "event_response", "event_error"}
   /\ resp.received
   /\ result.state = "err"
   /\ IF result.call = "next_event"
        THEN resp.status \in 400..599
        ELSE resp.status \notin 200..299) =>
    /\ Mentions(result.v.msg, ToString(resp.status))
    /\ \A other \in CallsFailingOn(resp.status) \ {result.call} :
         StatusErrorOf(other, resp.status).msg /= result.v.msg

Waiting == pc \in {"next_event", "next_event_body", "event_response", "event_error", "fail_init"}

\* C17: no call retries: each call sends at most one HTTP request, whatever
\* the status or the transport does; a call that waits has sent exactly one,
\* and a failed exchange is returned (or, for fail_init, ends the process)
\* with that one request sent.
C17_NoRetry ==
  /\ Len(requests) <= 1
  /\ Waiting => Len(requests) = 1
  /\ (~Waiting /\ result.state \in {"err", "panicked"} /\ requests /= <<>>) =>
       /\ Len(requests) = 1
       /\ pc = IF result.state = "panicked" THEN "panicked" ELSE "idle"

C17_Witness ==
  /\ result.call = "next_event"
  /\ pc = "idle"
  /\ ~resp.received
  /\ result.state = "err"
  /\ Len(requests) = 1

EventHeld == pc = "idle" /\ result.call = "next_event" /\ result.state = "ok"

C19_CallsResolve ==
  /\ [](~Waiting =>
          /\ result.call \in {"next_event", "event_response", "event_error"}
               => result.state \in {"ok", "err"}
          /\ result.call = "fail_init" => result.state \in {"returned", "panicked"})
  /\ \A waiting \in {"next_event", "next_event_body", "event_response",
                     "event_error", "fail_init"} :
       (pc = waiting) ~> (pc \in {"idle", "panicked"})

C19_Witness ==
  /\ result.call = "event_error"
  /\ pc = "idle"
  /\ resp.received
  /\ resp.status = 202
  /\ result.state = "ok"

HasSpace(text) == \E k \in 1..Len(text) : text[k] = " "

\* C20: when the URI built from the endpoint (and the request id) does not
\* parse, no HTTP request is sent: next_event, event_response and event_error
\* return an error that is not flagged unrecoverable, and fail_init panics.
C20_NoRequestOnBadUri ==
  /\ \A k \in 1..Len(requests) : ~HasSpace(requests[k].uri)
  /\ HasSpace(endpoint) => requests = <<>>
  /\ Waiting => requests /= <<>>
  /\ (~Waiting /\ requests = <<>>) =>
       /\ result.call \in {"next_event", "event_response", "event_error"} =>
            /\ pc = "idle"
            /\ result.state = "err"
            /\ result.v = [msg |-> <<"InvalidUri">>, unrecoverable |-> FALSE]
       /\ result.call = "fail_init" => pc = "panicked" /\ result.state = "panicked"

C20_Witness ==
  /\ ~HasSpace(endpoint)
  /\ result.call = "event_response"
  /\ pc = "idle"
  /\ requests = <<>>
  /\ result.state = "err"
  /\ ~result.v.unrecoverable

====
